---- MODULE Spec2Model ----
(***************************************************************************)
(* Model of the pomodoro timer of src/src/lib.rs: the StateTracker (cycle  *)
(* position and phase), the Clock (minutes/seconds, u32 arithmetic) and    *)
(* the countdown loop, one action per step of the code.                    *)
(***************************************************************************)
EXTENDS Integers, Sequences, FiniteSets, TLC

VARIABLES
    current_order,   \* StateTracker.current_order : Option<i32>
    current_state,   \* StateTracker.current_state : PomodoroState
    started_at,      \* StateTracker.started_at : Option<SystemTime>
    minutes,         \* Clock.minutes of the clock of the innermost frame
    seconds,         \* Clock.seconds of the clock of the innermost frame
    stack,           \* call stack, outermost frame first
    pc,              \* position of the innermost frame
    ticks,           \* history: decrements done by the current countdown
    renders,         \* history: panels drawn by the current countdown
    start_ms,        \* history: get_ms_from_time() when the countdown was entered
    shown,           \* history: the time on the last panel drawn by the current countdown (<<>>: none)
    flushed,         \* history: the time on the last panel flushed by the current countdown (<<>>: none)
    incs,            \* history: increment_cycle calls since the position was last unset by new/restart_cycle
    works,           \* history: work countdowns entered by the process (start_pomodoro) or by the current call
    breaks,          \* history: break countdowns entered by the process (start_pomodoro) or by the current call
    last_op,         \* history: the last operation called from outside
    last_arg,        \* history: its argument (0 when it takes none)
    prev_order       \* history: current_order when that operation was called

vars == <<current_order, current_state, started_at, minutes, seconds, stack, pc,
          ticks, renders, start_ms, shown, flushed, incs, works, breaks, last_op, last_arg, prev_order>>

trackerVars == <<current_order, current_state, started_at>>
clockVars == <<minutes, seconds>>
countVars == <<ticks, renders, start_ms, shown, flushed>>
callVars == <<works, breaks>>
apiVars == <<last_op, last_arg, prev_order>>

----------------------------------------------------------------------------
(* Bounds of the model *)

MaxIncs == 7
MaxSeconds == 64
MaxMinutes == 3
MaxHours == 2

(* Program constants *)

WorkMinutes == 25
ShortBreakMinutes == 5
LongBreakMinutes == 30
LastOrder == 4
MsPerSecond == 1000
MsPerMinute == 60000
SecondsPerMinute == 60
MinutesPerHour == 60

----------------------------------------------------------------------------
(* Option<T>: None is the empty sequence, Some(v) the one-element sequence *)

None == <<>>
Some(v) == <<v>>

(* u32 values.  TLC's integers are 32-bit signed, so a u32 number of       *)
(* milliseconds v is kept as whole seconds and a remainder:                *)
(* v = s * 1000 + r with 0 <= r < 1000.  2^32 = 4294967 * 1000 + 296.      *)

TwoPow32S == 4294967
TwoPow32R == 296

U32(ms) == [s |-> ms \div MsPerSecond, r |-> ms % MsPerSecond]

U32Norm(s, r) == [s |-> s + (r \div MsPerSecond), r |-> r % MsPerSecond]

U32Fits(v) == /\ v.s >= 0
              /\ \/ v.s < TwoPow32S
                 \/ v.s = TwoPow32S /\ v.r < TwoPow32R

\* v mod 2^32 for a value that left the range by less than 2^32
U32Wrap(v) ==
    IF v.s < 0 THEN U32Norm(v.s + TwoPow32S, v.r + TwoPow32R)
    ELSE IF U32Fits(v) THEN v
    ELSE U32Norm(v.s - TwoPow32S, v.r - TwoPow32R)

\* minutes * 60000, before the reduction to 32 bits
MulMinutes(m) == [s |-> m * SecondsPerMinute, r |-> 0]

\* time_in_ms - 1000, before the reduction to 32 bits
SubSecond(v) == [s |-> v.s - 1, r |-> v.r]

----------------------------------------------------------------------------
(* StateTracker: the pure parts *)

\* increment_cycle wrapping from 4 straight to 1
IncrementOrderSkipsUnset(order) ==
    IF order # None /\ order[1] < LastOrder THEN Some(order[1] + 1)
    ELSE Some(1)

\* increment_cycle with the guard num <= 4
IncrementOrderPastLast(order) ==
    IF order # None /\ order[1] <= LastOrder THEN Some(order[1] + 1)
    ELSE IF order = None THEN Some(1)
    ELSE None

\* increment_cycle, the new value of current_order
IncrementOrder(order) ==
    IF order # None /\ order[1] < LastOrder THEN Some(order[1] + 1)
    ELSE IF order = None THEN Some(1)
    ELSE None

\* restart_cycle restarting at Some(0)
RestartOrderZero(order) == Some(0)

\* restart_cycle, the new value of current_order
RestartOrder(order) == None

\* set_break with the first arm matching 0..=4
BreakStateNoLong(order) ==
    IF order # None /\ order[1] >= 0 /\ order[1] <= 4 THEN "ShortBreak"
    ELSE "None"

\* set_break with the arm None => ShortBreak
BreakStateShortOnUnset(order) ==
    IF order = None THEN "ShortBreak"
    ELSE IF order[1] >= 0 /\ order[1] <= 3 THEN "ShortBreak"
    ELSE IF order[1] = 4 THEN "LongBreak"
    ELSE "None"

\* set_break with the arms 0..=2 and 3..=4
BreakStateLongFromThree(order) ==
    IF order # None /\ order[1] >= 0 /\ order[1] <= 2 THEN "ShortBreak"
    ELSE IF order # None /\ order[1] >= 3 /\ order[1] <= 4 THEN "LongBreak"
    ELSE "None"

\* set_break, the new value of current_state
BreakState(order) ==
    IF order # None /\ order[1] >= 0 /\ order[1] <= 3 THEN "ShortBreak"
    ELSE IF order # None /\ order[1] = 4 THEN "LongBreak"
    ELSE "None"

----------------------------------------------------------------------------
(* Clock: the pure parts *)

\* set_time_ms without the reduction of the minutes modulo 60
SetTimeMsMinutesNoMod(v) == v.s \div SecondsPerMinute

\* set_time_ms without the reduction of the seconds modulo 60
SetTimeMsSecondsNoMod(v) == v.s

\* set_time_ms, the new minutes and seconds
SetTimeMsMinutes(v) == (v.s \div SecondsPerMinute) % MinutesPerHour
SetTimeMsSeconds(v) == v.s % SecondsPerMinute

\* get_ms_from_time
GetMsFromTime(m, s) == U32((m * MsPerMinute) + (s * MsPerSecond))

\* format!("{:02}", n): decimal digits, left-padded with zeros to width 2
Digit(d) == CASE d = 0 -> "0" [] d = 1 -> "1" [] d = 2 -> "2" [] d = 3 -> "3"
              [] d = 4 -> "4" [] d = 5 -> "5" [] d = 6 -> "6" [] d = 7 -> "7"
              [] d = 8 -> "8" [] d = 9 -> "9"

RECURSIVE Decimal(_)
Decimal(n) == IF n < 10 THEN <<Digit(n)>>
              ELSE Append(Decimal(n \div 10), Digit(n % 10))

Pad02(n) == IF Len(Decimal(n)) < 2 THEN <<"0">> \o Decimal(n) ELSE Decimal(n)

\* get_time, as the sequence of the characters of the string
GetTime(m, s) == Pad02(m) \o <<":">> \o Pad02(s)

----------------------------------------------------------------------------
Init ==
    /\ current_order = None
    /\ current_state = "None"
    /\ started_at = None
    /\ minutes = 0
    /\ seconds = 0
    /\ stack = <<>>
    /\ pc = "idle"
    /\ ticks = 0
    /\ renders = 0
    /\ start_ms = 0
    /\ shown = <<>>
    /\ flushed = <<>>
    /\ incs = 0
    /\ works = 0
    /\ breaks = 0
    /\ last_op = "new"
    /\ last_arg = 0
    /\ prev_order = None

Idle == pc = "idle" /\ stack = <<>>

\* the process has aborted: an unwrap() of a failed terminal_size() or flush(),
\* or an arithmetic overflow in a build with overflow checks
Panicked == pc \in {"panic_size", "panic_draw", "panic_flush", "panic_overflow"}

\* history of a call from outside
Called(op, arg) ==
    /\ last_op' = op
    /\ last_arg' = arg
    /\ prev_order' = current_order

\* the history of a countdown, cleared when a clock is made or set
NoCountdown ==
    /\ ticks' = 0
    /\ renders' = 0
    /\ start_ms' = 0
    /\ shown' = <<>>
    /\ flushed' = <<>>

\* Clock::new(); clock.set_time_minutes(m); clock.countdown() up to its first line
RunClock(m, frames) ==
    /\ minutes' = SetTimeMsMinutes(U32Wrap(MulMinutes(m)))
    /\ seconds' = SetTimeMsSeconds(U32Wrap(MulMinutes(m)))
    /\ stack' = frames \o <<"countdown">>
    /\ pc' = "size"
    /\ ticks' = 0
    /\ renders' = 0
    /\ shown' = <<>>
    /\ flushed' = <<>>
    /\ start_ms' = (SetTimeMsMinutes(U32Wrap(MulMinutes(m))) * MsPerMinute)
                   + (SetTimeMsSeconds(U32Wrap(MulMinutes(m))) * MsPerSecond)

----------------------------------------------------------------------------
(* StateTracker operations called on an idle tracker *)

IncrementCycle ==
    /\ Idle
    /\ incs < MaxIncs
    /\ current_order' = IncrementOrder(current_order)
    /\ incs' = incs + 1
    /\ Called("increment_cycle", 0)
    /\ UNCHANGED <<current_state, started_at, clockVars, stack, pc, countVars,
                   callVars>>

RestartCycle ==
    /\ Idle
    /\ current_order' = RestartOrder(current_order)
    /\ incs' = 0
    /\ Called("restart_cycle", 0)
    /\ UNCHANGED <<current_state, started_at, clockVars, stack, pc, countVars,
                   callVars>>

SetBreak ==
    /\ Idle
    /\ current_state' = BreakState(current_order)
    /\ Called("set_break", 0)
    /\ UNCHANGED <<current_order, started_at, clockVars, stack, pc, countVars,
                   incs, callVars>>

\* start_work up to the first line of countdown
StartWorkBody(order, done, frames) ==
    /\ started_at' = Some("now")
    /\ current_state' = "Working"
    /\ current_order' = IncrementOrder(order)
    /\ works' = done + 1
    /\ RunClock(WorkMinutes, frames \o <<"start_work">>)

StartWork ==
    /\ Idle
    /\ incs < MaxIncs
    /\ incs' = incs + 1
    /\ Called("start_work", 0)
    /\ breaks' = 0
    /\ StartWorkBody(current_order, 0, <<>>)

\* long_break running the clock of short_break
BreakMinutesAllShort(state) == ShortBreakMinutes

\* short_break and long_break up to the first line of countdown
BreakMinutes(state) == IF state = "ShortBreak" THEN ShortBreakMinutes ELSE LongBreakMinutes
BreakFrame(state) == IF state = "ShortBreak" THEN "short_break" ELSE "long_break"

\* start_break with the arm _ => self.short_break()
StartBreakDefaultShort ==
    /\ pc = "idle" /\ stack = <<>>
    /\ works' = 0
    /\ breaks' = 1
    /\ RunClock(BreakMinutes(IF current_state = "LongBreak" THEN "LongBreak" ELSE "ShortBreak"),
                <<"start_break",
                  BreakFrame(IF current_state = "LongBreak" THEN "LongBreak" ELSE "ShortBreak")>>)
    /\ Called("start_break", 0)
    /\ UNCHANGED <<trackerVars, incs>>

StartBreak ==
    /\ Idle
    /\ works' = 0
    /\ IF current_state \in {"ShortBreak", "LongBreak"}
       THEN /\ breaks' = 1
            /\ RunClock(BreakMinutes(current_state),
                        <<"start_break", BreakFrame(current_state)>>)
       ELSE /\ breaks' = 0
            /\ UNCHANGED <<clockVars, stack, pc, countVars>>
    /\ Called("start_break", 0)
    /\ UNCHANGED <<trackerVars, incs>>

ShortBreak ==
    /\ Idle
    /\ works' = 0
    /\ breaks' = 1
    /\ RunClock(ShortBreakMinutes, <<"short_break">>)
    /\ Called("short_break", 0)
    /\ UNCHANGED <<trackerVars, incs>>

LongBreak ==
    /\ Idle
    /\ works' = 0
    /\ breaks' = 1
    /\ RunClock(LongBreakMinutes, <<"long_break">>)
    /\ Called("long_break", 0)
    /\ UNCHANGED <<trackerVars, incs>>

----------------------------------------------------------------------------
(* Clock::countdown, one action per line *)

InCountdown == stack # <<>> /\ stack[Len(stack)] = "countdown"

\* let (x, y) = termion::terminal_size().unwrap();
TerminalSize ==
    /\ InCountdown
    /\ pc = "size"
    /\ \E ok \in BOOLEAN : pc' = IF ok THEN "sleep" ELSE "panic_size"
    /\ UNCHANGED <<trackerVars, clockVars, stack, countVars, incs, callVars, apiVars>>

\* sleep(Duration::new(1, 0));
Sleep ==
    /\ InCountdown
    /\ pc = "sleep"
    /\ pc' = "dec"
    /\ UNCHANGED <<trackerVars, clockVars, stack, countVars, incs, callVars, apiVars>>

\* self.decrement_one_second(); the subtraction panics on overflow in a build
\* with overflow checks and wraps modulo 2^32 in a build without them
Decrement ==
    /\ InCountdown
    /\ pc = "dec"
    /\ \E checked \in BOOLEAN :
         IF U32Fits(SubSecond(GetMsFromTime(minutes, seconds))) \/ ~checked
         THEN /\ minutes' = SetTimeMsMinutes(U32Wrap(SubSecond(GetMsFromTime(minutes, seconds))))
              /\ seconds' = SetTimeMsSeconds(U32Wrap(SubSecond(GetMsFromTime(minutes, seconds))))
              /\ ticks' = ticks + 1
              /\ pc' = "draw"
         ELSE /\ pc' = "panic_overflow"
              /\ UNCHANGED <<clockVars, ticks>>
    /\ UNCHANGED <<trackerVars, stack, renders, start_ms, shown, flushed, incs, callVars, apiVars>>

\* self.draw_work_clock(); its first line is another
\* termion::terminal_size().unwrap(), then the panel with the clock's time
DrawWorkClock ==
    /\ InCountdown
    /\ pc = "draw"
    /\ \E ok \in BOOLEAN :
         IF ok THEN /\ pc' = "flush"
                    /\ renders' = renders + 1
                    /\ shown' = GetTime(minutes, seconds)
         ELSE /\ pc' = "panic_draw"
              /\ UNCHANGED <<renders, shown>>
    /\ UNCHANGED <<trackerVars, clockVars, stack, ticks, start_ms, flushed, incs, callVars, apiVars>>

\* countdown without the flush
FlushMissing ==
    /\ stack # <<>> /\ stack[Len(stack)] = "countdown"
    /\ pc = "flush"
    /\ pc' = "check"
    /\ UNCHANGED <<trackerVars, clockVars, stack, countVars, incs, callVars, apiVars>>

\* io::stdout().flush().unwrap();
Flush ==
    /\ InCountdown
    /\ pc = "flush"
    /\ \E ok \in BOOLEAN :
         IF ok THEN pc' = "check" /\ flushed' = shown
         ELSE pc' = "panic_flush" /\ UNCHANGED flushed
    /\ UNCHANGED <<trackerVars, clockVars, stack, ticks, renders, start_ms, shown, incs,
                   callVars, apiVars>>

\* countdown breaking out of the loop whatever the clock shows
ZeroCheckBreaksAtOnce ==
    /\ stack # <<>> /\ stack[Len(stack)] = "countdown"
    /\ pc = "check"
    /\ pc' = "ret"
    /\ UNCHANGED <<trackerVars, clockVars, stack, countVars, incs, callVars, apiVars>>

\* countdown with the terminal_size query inside the loop
ZeroCheckRequeries ==
    /\ stack # <<>> /\ stack[Len(stack)] = "countdown"
    /\ pc = "check"
    /\ pc' = IF GetMsFromTime(minutes, seconds) = U32(0) THEN "ret" ELSE "size"
    /\ UNCHANGED <<trackerVars, clockVars, stack, countVars, incs, callVars, apiVars>>

\* if self.get_ms_from_time() == 0 { break; }
ZeroCheck ==
    /\ InCountdown
    /\ pc = "check"
    /\ pc' = IF GetMsFromTime(minutes, seconds) = U32(0) THEN "ret" ELSE "sleep"
    /\ UNCHANGED <<trackerVars, clockVars, stack, countVars, incs, callVars, apiVars>>

----------------------------------------------------------------------------
(* Returns from countdown *)

Caller == stack[Len(stack) - 1]
Below(n) == SubSeq(stack, 1, Len(stack) - n)

\* the frames left once the callers that have nothing more to do have returned
RECURSIVE Unwind(_)
Unwind(frames) ==
    IF frames # <<>> /\ frames[Len(frames)] \in {"short_break", "long_break", "start_break", "start_work"}
    THEN Unwind(SubSeq(frames, 1, Len(frames) - 1))
    ELSE frames

\* start_pomodoro going round again instead of returning
ReturnedLoops(frames) == "idle"

\* where the process is once the frames have returned: start_pomodoro and
\* run return to main, which exits
Returned(frames) == IF frames = <<"start_pomodoro">> THEN "exit" ELSE "idle"

\* countdown returns into start_work: set_break(); start_break();
WorkDone ==
    /\ InCountdown
    /\ pc = "ret"
    /\ Len(stack) >= 2 /\ Caller = "start_work"
    /\ current_state' = BreakState(current_order)
    /\ IF BreakState(current_order) \in {"ShortBreak", "LongBreak"}
       THEN /\ breaks' = breaks + 1
            /\ RunClock(BreakMinutes(BreakState(current_order)),
                        Below(1) \o <<"start_break", BreakFrame(BreakState(current_order))>>)
       ELSE /\ stack' = <<>>
            /\ pc' = Returned(Unwind(Below(1)))
            /\ UNCHANGED <<clockVars, countVars, breaks>>
    /\ UNCHANGED <<current_order, started_at, incs, works, apiVars>>

\* long_break calling restart_cycle once its clock has run out
BreakDoneResets ==
    /\ stack # <<>> /\ stack[Len(stack)] = "countdown"
    /\ pc = "ret"
    /\ Len(stack) >= 2 /\ stack[Len(stack) - 1] \in {"short_break", "long_break"}
    /\ stack' = <<>>
    /\ pc' = Returned(Unwind(SubSeq(stack, 1, Len(stack) - 1)))
    /\ current_order' = IF stack[Len(stack) - 1] = "long_break" THEN None ELSE current_order
    /\ UNCHANGED <<current_state, started_at, clockVars, countVars, incs, callVars, apiVars>>

\* countdown returns into short_break or long_break, which return to their callers
BreakDone ==
    /\ InCountdown
    /\ pc = "ret"
    /\ Len(stack) >= 2 /\ Caller \in {"short_break", "long_break"}
    /\ stack' = <<>>
    /\ pc' = Returned(Unwind(Below(1)))
    /\ UNCHANGED <<trackerVars, clockVars, countVars, incs, callVars, apiVars>>

CountdownStep ==
    \/ TerminalSize
    \/ Sleep
    \/ Decrement
    \/ DrawWorkClock
    \/ Flush
    \/ ZeroCheck

----------------------------------------------------------------------------
(* The tracker driven through its operations *)

Next ==
    \/ IncrementCycle
    \/ RestartCycle
    \/ SetBreak
    \/ StartWork
    \/ StartBreak
    \/ ShortBreak
    \/ LongBreak
    \/ CountdownStep
    \/ WorkDone
    \/ BreakDone

Spec == Init /\ [][Next]_vars

----------------------------------------------------------------------------
(* The tracker driven through its public operations only *)

NextPublic ==
    \/ SetBreak
    \/ StartWork
    \/ StartBreak
    \/ ShortBreak
    \/ LongBreak
    \/ CountdownStep
    \/ WorkDone
    \/ BreakDone

SpecPublic == Init /\ [][NextPublic]_vars

----------------------------------------------------------------------------
(* start_work called again and again on the same tracker *)

NextRepeat ==
    \/ StartWork
    \/ CountdownStep
    \/ WorkDone
    \/ BreakDone

SpecRepeat == Init /\ [][NextRepeat]_vars

----------------------------------------------------------------------------
(* The program as wired: run(Start) calls start_pomodoro, then main exits *)

StartPomodoro ==
    /\ Idle
    /\ incs' = 1
    /\ Called("start_pomodoro", 0)
    /\ UNCHANGED breaks
    /\ StartWorkBody(None, works, <<"start_pomodoro">>)

NextProgram ==
    \/ StartPomodoro
    \/ CountdownStep
    \/ WorkDone
    \/ BreakDone

SpecProgram == Init /\ [][NextProgram]_vars

----------------------------------------------------------------------------
(* A Clock driven through its operations *)

SecondsInputs == 0 .. MaxSeconds
HoursInputs == 0 .. MaxHours
LastSecondOfHour == (MinutesPerHour * SecondsPerMinute) - 1
MsInputs == { (h * MinutesPerHour * MsPerMinute) + (s * MsPerSecond) + r :
              h \in HoursInputs, s \in SecondsInputs \cup {LastSecondOfHour},
              r \in {0, MsPerSecond - 1} }

\* the smallest number of minutes whose milliseconds do not fit in a u32
OverflowMinutes == (TwoPow32S \div SecondsPerMinute) + 1

MinutesInputs == (0 .. MaxMinutes)
                 \cup {ShortBreakMinutes, WorkMinutes, LongBreakMinutes}
                 \cup {MinutesPerHour - 1, MinutesPerHour, MinutesPerHour + 1}
                 \cup {OverflowMinutes}

ClockNew ==
    /\ Idle
    /\ minutes' = 0
    /\ seconds' = 0
    /\ Called("new", 0)
    /\ NoCountdown
    /\ UNCHANGED <<trackerVars, stack, pc, incs, callVars>>

ClockSetTimeMs ==
    /\ Idle
    /\ \E ms \in MsInputs :
         /\ minutes' = SetTimeMsMinutes(U32(ms))
         /\ seconds' = SetTimeMsSeconds(U32(ms))
         /\ Called("set_time_ms", ms)
    /\ NoCountdown
    /\ UNCHANGED <<trackerVars, stack, pc, incs, callVars>>

\* the multiplication panics on overflow in a build with overflow checks and
\* wraps modulo 2^32 in a build without them
ClockSetTimeMinutes ==
    /\ Idle
    /\ \E m \in MinutesInputs, checked \in BOOLEAN :
         /\ Called("set_time_minutes", m)
         /\ IF U32Fits(MulMinutes(m)) \/ ~checked
            THEN /\ minutes' = SetTimeMsMinutes(U32Wrap(MulMinutes(m)))
                 /\ seconds' = SetTimeMsSeconds(U32Wrap(MulMinutes(m)))
                 /\ UNCHANGED pc
            ELSE /\ pc' = "panic_overflow"
                 /\ UNCHANGED clockVars
    /\ NoCountdown
    /\ UNCHANGED <<trackerVars, stack, incs, callVars>>

ClockCountdown ==
    /\ Idle
    /\ stack' = <<"countdown">>
    /\ pc' = "size"
    /\ ticks' = 0
    /\ renders' = 0
    /\ shown' = <<>>
    /\ flushed' = <<>>
    /\ start_ms' = (minutes * MsPerMinute) + (seconds * MsPerSecond)
    /\ Called("countdown", 0)
    /\ UNCHANGED <<trackerVars, clockVars, incs, callVars>>

\* countdown returns to a caller that holds nothing but the clock
CountdownDone ==
    /\ stack = <<"countdown">>
    /\ pc = "ret"
    /\ stack' = <<>>
    /\ pc' = "idle"
    /\ UNCHANGED <<trackerVars, clockVars, countVars, incs, callVars, apiVars>>

NextClock ==
    \/ ClockNew
    \/ ClockSetTimeMs
    \/ ClockSetTimeMinutes
    \/ ClockCountdown
    \/ CountdownStep
    \/ CountdownDone

SpecClock == Init /\ [][NextClock]_vars

----------------------------------------------------------------------------
(* Properties of the cycle position *)

\* the position that k increments from unset give: k mod 5, 0 being unset
OrderOfCount(k) == IF k % 5 = 0 THEN None ELSE Some(k % 5)

\* C1: after k increment_cycle calls on a tracker whose position was unset
\* (fresh, or restarted), the position is k mod 5 with 0 meaning unset: the
\* calls yield 1, 2, 3, 4, unset, and the sixth yields 1 again.
C1_PositionIsCountMod5 == current_order = OrderOfCount(incs)

C1_SixthCallYieldsOne ==
    /\ incs = 6
    /\ last_op = "increment_cycle"
    /\ prev_order = None
    /\ current_order = Some(1)

C2_Range == current_order \in {None, Some(1), Some(2), Some(3), Some(4)}

C2_Step ==
    \/ current_order' = current_order
    \/ current_order = None /\ current_order' = Some(1)
    \/ current_order # None /\ current_order' = Some(current_order[1] + 1)
    \/ current_order' = None

\* C2: in every state reachable through increment_cycle, restart_cycle,
\* set_break, start_break and start_work the position is unset or one of
\* 1, 2, 3, 4, and every step leaves it unchanged, raises it by exactly 1
\* (unset to 1 being the first step) or sets it to unset.
C2_PositionBoundedAndStepwise == []C2_Range /\ [][C2_Step]_vars

C2_WorkRaisedThreeToFour ==
    /\ last_op = "start_work"
    /\ prev_order = Some(3)
    /\ current_order = Some(4)
    /\ pc = "sleep"

\* C3: whatever the position and the phase were, the position is unset
\* once restart_cycle has returned.
C3_RestartYieldsUnset == last_op = "restart_cycle" => current_order = None

C3_RestartedFromFour ==
    /\ last_op = "restart_cycle"
    /\ prev_order = Some(4)
    /\ current_state = "LongBreak"
    /\ current_order = None

\* C4: set_break sets the phase to ShortBreak at position 1, 2 or 3, to
\* LongBreak at position 4 and to None (idle) at the unset position.
C4_SetBreakMapping ==
    last_op = "set_break" =>
        /\ current_order \in {Some(1), Some(2), Some(3)} => current_state = "ShortBreak"
        /\ current_order = Some(4) => current_state = "LongBreak"
        /\ current_order = None => current_state = "None"
        /\ C2_Range

C4_SetBreakAtFour ==
    /\ last_op = "set_break"
    /\ current_order = Some(4)
    /\ current_state = "LongBreak"

----------------------------------------------------------------------------
(* Properties of the countdown *)

Remaining == (minutes * SecondsPerMinute) + seconds

CountdownReturned == last_op = "countdown" /\ pc \in {"ret", "idle"}

\* C5: a countdown on a clock initialized to N whole seconds returns after
\* exactly N decrement-and-render steps with get_ms_from_time() = 0, and the
\* remaining time is never negative.
C5_CountdownTakesNTicks ==
    /\ Remaining >= 0
    /\ CountdownReturned =>
          /\ ticks * MsPerSecond = start_ms
          /\ renders = ticks
          /\ GetMsFromTime(minutes, seconds) = U32(0)

\* C6: every tick of a countdown happens at a remaining time above zero and
\* lowers it by exactly one second (MM:00 becomes MM-1:59); the remaining
\* time never goes below zero.
C6_TickLowersByOneSecond ==
    [][ /\ Remaining' >= 0
        /\ (pc = "dec" /\ pc' = "draw") =>
              /\ Remaining > 0
              /\ Remaining' = Remaining - 1
              /\ (seconds = 0 => minutes' = minutes - 1 /\ seconds' = SecondsPerMinute - 1) ]_vars

----------------------------------------------------------------------------
(* Properties of start_work and of the program *)

\* C7: start_work on a tracker with unset position raises the position to 1
\* and runs a work clock set to 25:00; when the work clock has run out it
\* selects ShortBreak and runs a break clock set to 05:00 at positions 1 to 3,
\* and selects LongBreak and runs a break clock set to 30:00 at position 4.
C7_WorkThenBreakClock ==
    [][ /\ (stack = <<>> /\ last_op' = "start_work" /\ stack' # <<>>) =>
              /\ stack' = <<"start_work", "countdown">>
              /\ pc' = "size"
              /\ current_state' = "Working"
              /\ GetTime(minutes', seconds') = <<"2", "5", ":", "0", "0">>
              /\ current_order = None => current_order' = Some(1)
        /\ (stack = <<"start_work", "countdown">> /\ pc = "ret") =>
              /\ current_order \in {Some(1), Some(2), Some(3)} =>
                    /\ current_state' = "ShortBreak"
                    /\ stack' = <<"start_work", "start_break", "short_break", "countdown">>
                    /\ pc' = "size"
                    /\ GetTime(minutes', seconds') = <<"0", "5", ":", "0", "0">>
              /\ current_order = Some(4) =>
                    /\ current_state' = "LongBreak"
                    /\ stack' = <<"start_work", "start_break", "long_break", "countdown">>
                    /\ pc' = "size"
                    /\ GetTime(minutes', seconds') = <<"3", "0", ":", "0", "0">> ]_vars

C7_LongBreakClockAfterFourth ==
    /\ last_op = "start_work"
    /\ stack = <<"start_work", "start_break", "long_break", "countdown">>
    /\ pc = "size"
    /\ current_order = Some(4)
    /\ current_state = "LongBreak"
    /\ GetTime(minutes, seconds) = <<"3", "0", ":", "0", "0">>

\* C8: the program started with `start` enters one work countdown, then one
\* break countdown, and exits; it never enters a second work countdown.
C8_OneWorkOneBreakThenExit ==
    /\ works <= 1
    /\ breaks <= works
    /\ breaks = 1 => current_state # "Working"
    /\ pc = "exit" => works = 1 /\ breaks = 1 /\ stack = <<>>

C8_ExitedAfterShortBreak ==
    /\ pc = "exit"
    /\ works = 1
    /\ breaks = 1
    /\ current_state = "ShortBreak"
    /\ ticks = ShortBreakMinutes * SecondsPerMinute
    /\ Remaining = 0

\* C9: the process exits only when the full cycle has completed: four work
\* intervals, the fourth followed by the long break.
C9_ExitsOnlyAfterFullCycle ==
    pc = "exit" =>
        /\ works = 4
        /\ current_order = Some(4)
        /\ current_state = "LongBreak"

----------------------------------------------------------------------------
(* Properties of the clock's setters and of its formatting *)

DigitValue(c) == CASE c = "0" -> 0 [] c = "1" -> 1 [] c = "2" -> 2 [] c = "3" -> 3
                   [] c = "4" -> 4 [] c = "5" -> 5 [] c = "6" -> 6 [] c = "7" -> 7
                   [] c = "8" -> 8 [] c = "9" -> 9 [] OTHER -> -1

\* t is the five characters MM:SS, two decimal digits each, of mm and ss
IsTwoDigitTime(t, mm, ss) ==
    /\ Len(t) = 5
    /\ t[3] = ":"
    /\ \A i \in {1, 2, 4, 5} : DigitValue(t[i]) >= 0
    /\ (DigitValue(t[1]) * 10) + DigitValue(t[2]) = mm
    /\ (DigitValue(t[4]) * 10) + DigitValue(t[5]) = ss

\* C10: set_time_ms(ms) followed by get_time() yields the zero-padded MM:SS
\* with MM = (ms / 60000) mod 60 and SS = (ms / 1000) mod 60, also for ms of
\* one hour and more; set_time_minutes(m), for m whose milliseconds are a
\* u32, gives what set_time_ms(m * 60000) gives.
C10_SetThenFormat ==
    /\ last_op = "set_time_ms" =>
          IsTwoDigitTime(GetTime(minutes, seconds),
                         (last_arg \div 60000) % 60, (last_arg \div 1000) % 60)
    /\ (last_op = "set_time_minutes" /\ U32Fits(MulMinutes(last_arg))) =>
          /\ pc = "idle"
          /\ IsTwoDigitTime(GetTime(minutes, seconds),
                            ((last_arg * 60000) \div 60000) % 60,
                            ((last_arg * 60000) \div 1000) % 60)

C10_OverAnHour ==
    /\ last_op = "set_time_ms"
    /\ last_arg >= 3600000
    /\ last_arg % 1000 # 0
    /\ GetTime(minutes, seconds) = <<"0", "1", ":", "0", "1">>

----------------------------------------------------------------------------
(* Further properties of the countdown and of start_work *)

HasFrame(frames, f) == \E i \in 1 .. Len(frames) : frames[i] = f

InWorkCountdown == InCountdown /\ Len(stack) >= 2 /\ Caller = "start_work"

BreakPhases == {"ShortBreak", "LongBreak"}

\* C11: decrement_one_second is never invoked while the remaining time is
\* zero, on whatever clock countdown was called.
C11_NoDecrementAtZero == [][(pc = "dec" /\ pc' # "dec") => Remaining > 0]_vars

\* C12: once start_work has returned from the long break that follows the
\* 4th work interval, the position is unset.
C12_LongBreakResetsPosition ==
    (Idle /\ last_op = "start_work" /\ current_state = "LongBreak") => current_order = None

\* the break that follows the k-th work interval
KthBreak(k) == IF k % 5 \in {1, 2, 3} THEN "ShortBreak"
               ELSE IF k % 5 = 4 THEN "LongBreak"
               ELSE "None"

\* C13: with start_work called k times on one tracker, the k-th work interval
\* is followed by a short break for k = 1, 2, 3, by a long break for k = 4
\* and by no break for k = 5, although its 25 minutes of work ran with the
\* position unset; then the pattern repeats (k = 6 is a short break again).
C13_KthBreak ==
    /\ InWorkCountdown =>
          /\ start_ms = WorkMinutes * MsPerMinute
          /\ works = 1 /\ breaks = 0
          /\ current_order = OrderOfCount(incs)
    /\ HasFrame(stack, "short_break") =>
          incs % 5 \in {1, 2, 3} /\ start_ms = ShortBreakMinutes * MsPerMinute
    /\ HasFrame(stack, "long_break") =>
          incs % 5 = 4 /\ start_ms = LongBreakMinutes * MsPerMinute
    /\ (Idle /\ incs > 0) =>
          /\ current_state = KthBreak(incs)
          /\ works = 1
          /\ breaks = IF incs % 5 = 0 THEN 0 ELSE 1
          /\ ticks * MsPerSecond = start_ms
          /\ start_ms = CASE KthBreak(incs) = "ShortBreak" -> ShortBreakMinutes * MsPerMinute
                          [] KthBreak(incs) = "LongBreak" -> LongBreakMinutes * MsPerMinute
                          [] OTHER -> WorkMinutes * MsPerMinute

C13_FifthWorkHasNoBreak ==
    /\ Idle
    /\ incs = 5
    /\ current_order = None
    /\ current_state = "None"
    /\ breaks = 0
    /\ ticks = WorkMinutes * SecondsPerMinute

\* what C14 says of every step, with the phases start_work may be entered from
C14_Step(entries) ==
    /\ InWorkCountdown => current_state = "Working"
    /\ (current_state' # current_state
        /\ (HasFrame(stack, "start_work") \/ HasFrame(stack', "start_work"))) =>
          \/ current_state \in entries /\ current_state' = "Working" /\ stack = <<>>
          \/ /\ current_state = "Working"
             /\ current_state' \in BreakPhases \cup {"None"}
             /\ pc = "ret" /\ Remaining = 0
    /\ (InWorkCountdown /\ stack' # stack) =>
          /\ pc = "ret" /\ Remaining = 0
          /\ ticks = WorkMinutes * SecondsPerMinute
          /\ HasFrame(stack', "start_break") => ticks' = 0

\* C14 as stated: within start_work the phase is Working during the work
\* countdown, the break phase and the break clock come only once the work
\* clock is at zero, and the only phase changes are Idle to Working and
\* Working to ShortBreak, LongBreak or Idle.
C14_OnlyIdleToWorking == [][C14_Step({"None"})]_vars

\* C14 as amended: the same, start_work being entered from Idle, ShortBreak
\* or LongBreak (it sets Working whatever phase the last call left).
C14_PhaseOrderInStartWork == [][C14_Step({"None", "ShortBreak", "LongBreak"})]_vars

C14_BreakTickAfterSecondWork ==
    /\ stack = <<"start_work", "start_break", "short_break", "countdown">>
    /\ pc = "draw"
    /\ ticks = 1
    /\ current_state = "ShortBreak"
    /\ current_order = Some(2)
    /\ started_at # None

LoopOrder == { <<"sleep", "dec">>, <<"dec", "draw">>, <<"draw", "flush">>,
               <<"flush", "check">>, <<"check", "sleep">>, <<"check", "ret">>,
               <<"dec", "panic_overflow">>, <<"draw", "panic_draw">>,
               <<"flush", "panic_flush">> }

\* the time shown first: the clock's initial time minus one second, in u32
FirstShown ==
    LET v == U32Wrap(SubSecond(U32(start_ms)))
    IN  GetTime(SetTimeMsMinutes(v), SetTimeMsSeconds(v))

C15_Rendered ==
    /\ renders <= ticks /\ ticks <= renders + 1
    /\ ticks = 0 => shown = <<>> /\ flushed = <<>>
    /\ pc = "draw" => ticks = renders + 1
    /\ pc \in {"flush", "check", "sleep", "ret"} => renders = ticks
    /\ (pc \in {"flush", "check", "sleep", "ret"} /\ ticks > 0) =>
          shown = GetTime(minutes, seconds)
    /\ (pc \in {"check", "sleep", "ret"}) => flushed = shown
    /\ pc = "check" => ticks >= 1
    /\ renders = 1 =>
          /\ shown = FirstShown
          /\ shown # GetTime((start_ms \div MsPerMinute) % MinutesPerHour,
                             (start_ms \div MsPerSecond) % SecondsPerMinute)

C16_StartBreakIdleIsNoOp ==
    [][ /\ (Idle /\ last_op' = "start_break" /\ current_state \notin BreakPhases) =>
              /\ UNCHANGED <<current_order, current_state, started_at, clockVars,
                             stack, pc, countVars>>
              /\ breaks' = 0
        /\ (Idle /\ last_op' = "start_break" /\ current_state \in BreakPhases) =>
              /\ stack' = <<"start_break", BreakFrame(current_state), "countdown">>
              /\ UNCHANGED <<current_order, current_state>>
        /\ (~HasFrame(stack, "start_break") /\ HasFrame(stack', "start_break")) =>
              current_state' \in BreakPhases ]_vars

C16_StartBreakInPhaseNone ==
    /\ Idle
    /\ last_op = "start_break"
    /\ current_state = "None"
    /\ current_order = Some(2)
    /\ prev_order = Some(2)
    /\ breaks = 0

\* the phase the spec derives from the position
PhaseOfPosition(order) ==
    IF order \in {Some(1), Some(2), Some(3)} THEN "ShortBreak"
    ELSE IF order = Some(4) THEN "LongBreak"
    ELSE IF order = None THEN "None"
    ELSE "undefined"

\* C17: in every state reached through new, start_work, set_break,
\* start_break, short_break and long_break in which no work countdown is in
\* progress, the stored phase is the set_break mapping of the position.
C17_PhaseDeterminedByPosition ==
    ~InWorkCountdown => current_state = PhaseOfPosition(current_order)

C17_LongBreakCalledAtFour ==
    /\ Idle
    /\ last_op = "long_break"
    /\ current_order = Some(4)
    /\ current_state = "LongBreak"
    /\ ticks = LongBreakMinutes * SecondsPerMinute

HourMs == MinutesPerHour * MsPerMinute

\* C18: minutes and seconds are each in 0..59 and the total is a
\* non-negative multiple of 1000 ms; set_time_ms(ms) followed by
\* get_ms_from_time() returns ms for every multiple of 1000 below 3600000,
\* and ms without its whole hours for ms of 3600000 and more.
C18_FieldsAndRoundTrip ==
    /\ minutes \in 0 .. 59
    /\ seconds \in 0 .. 59
    /\ GetMsFromTime(minutes, seconds).r = 0
    /\ GetMsFromTime(minutes, seconds).s >= 0
    /\ (last_op = "set_time_ms" /\ last_arg % MsPerSecond = 0 /\ last_arg < HourMs) =>
          GetMsFromTime(minutes, seconds) = U32(last_arg)
    /\ (last_op = "set_time_ms" /\ last_arg >= HourMs) =>
          /\ GetMsFromTime(minutes, seconds) # U32(last_arg)
          /\ GetMsFromTime(minutes, seconds).s = (last_arg % HourMs) \div MsPerSecond

C18_HourLost ==
    /\ last_op = "set_time_ms"
    /\ last_arg = (2 * HourMs) + (LastSecondOfHour * MsPerSecond)
    /\ minutes = 59
    /\ seconds = 59

\* C19: a failed terminal-size query aborts the process; when it is the
\* query at the start of countdown no tick has been done, and once aborted
\* the process takes no further step: no later countdown or break starts.
C19_SizeFailureAborts ==
    /\ [](pc = "panic_size" =>
             /\ ticks = 0 /\ renders = 0 /\ shown = <<>>
             /\ Remaining * MsPerSecond = start_ms
             /\ InWorkCountdown => (breaks = 0 /\ current_state = "Working"))
    /\ [][~Panicked]_vars

C19_WorkQueryFailed ==
    /\ pc = "panic_size"
    /\ stack = <<"start_work", "countdown">>
    /\ current_state = "Working"
    /\ breaks = 0
    /\ ticks = 0

\* C20: the position changes only in the step that enters start_work (its
\* increment_cycle); ticks, set_break, start_break, short_break and
\* long_break leave it alone, and short_break and long_break leave the phase
\* alone.
C20_PositionChangesOnlyAtStartWork ==
    [][ /\ current_order' # current_order =>
              /\ Idle
              /\ last_op' = "start_work"
              /\ stack' = <<"start_work", "countdown">>
        /\ (\/ HasFrame(stack, "short_break")
            \/ HasFrame(stack, "long_break")
            \/ Idle /\ last_op' \in {"short_break", "long_break"}) =>
              UNCHANGED <<current_order, current_state>> ]_vars

C20_LongBreakTickKeepsTracker ==
    /\ stack = <<"long_break", "countdown">>
    /\ pc = "check"
    /\ ticks = 1
    /\ current_order = Some(1)
    /\ current_state = "ShortBreak"

====
